---- MODULE Spec2Model ----
(***************************************************************************)
(* Workspace resolution (fuzzy matcher, ranker, resolver) and the stack   *)
(* dependency graph (edge store, cycle detection, removal cascade) of the *)
(* spaces CLI.                                                             *)
(*                                                                         *)
(* Strings are sequences of one-character strings.  Indices stored in      *)
(* matchedIndices are the 0-based indices of the TypeScript code; the      *)
(* character at 0-based index k of a sequence s is s[k + 1].               *)
(***************************************************************************)
EXTENDS Integers, Sequences, FiniteSets, TLC

VARIABLES
    mq,        \* fuzzy matcher: the query handed to calculateMatchScore
    mc,        \* fuzzy matcher: the candidate string
    mres,      \* fuzzy matcher: the returned {score, matchedIndices}, or NoResult
    sw,        \* switchWorkspace: the record of the last resolution (see SwIdle)
    cfg,       \* the stacks member of the project config file (see EmptyCfg)
    onDisk,    \* the workspace directories that exist
    variant,   \* per workspace: 0 if its branch is named like it, 1 if --branch named it
    rm,        \* removeWorkspace: the command in progress or its outcome (see RmIdle)
    rb,        \* rebaseStack: the outcome of the last invocation (see RbIdle)
    tree,      \* getStackTree: the unreadable worktrees and the roots returned (see TreeIdle)
    ed         \* direct uses of the edge store by CLI processes (see EdIdle)

matchVars == <<mq, mc, mres>>
stackVars == <<cfg, onDisk, variant, rm, rb, tree, ed>>
vars == <<mq, mc, mres, sw, cfg, onDisk, variant, rm, rb, tree, ed>>

(***************************************************************************)
(* Bounds                                                                  *)
(***************************************************************************)
MaxQueryLen == 2
MaxCandLen == 4

(***************************************************************************)
(* Characters and strings                                                  *)
(***************************************************************************)
Alphabet == {"a", "A", "b", "-"}

\* String.prototype.toLowerCase on one character of the modelled alphabet
toLowerCase(ch) == IF ch = "A" THEN "a" ELSE IF ch = "B" THEN "b" ELSE ch

LowerStr(s) == [k \in 1..Len(s) |-> toLowerCase(s[k])]

Strings(n) == UNION {[1..k -> Alphabet] : k \in 0..n}

RECURSIVE Fill(_, _)
Fill(ch, n) == IF n <= 0 THEN <<>> ELSE <<ch>> \o Fill(ch, n - 1)

\* String.prototype.indexOf(ch, from) on a sequence: 0-based index or -1
IndexOf(s, ch, from) ==
    LET hits == {k \in from..(Len(s) - 1) : s[k + 1] = ch}
    IN  IF hits = {} THEN -1
        ELSE CHOOSE k \in hits : \A j \in hits : k <= j

(***************************************************************************)
(* Fuzzy matcher (src/utils/fuzzy-match.ts)                                *)
(***************************************************************************)
BaseScore == 50
StartBonus == 15
ConsecutiveBonus == 10
BoundaryBonus == 5
CaseBonus == 2
MinScore == 30

WordSeparators == {"-", "_", "/"}

NoMatch == [score |-> 0, matchedIndices |-> <<>>]

\* the first loop of calculateMatchScore: greedy leftmost embedding of the
\* lowercased query into the lowercased candidate; <<-1>> signals "not found"
RECURSIVE FindIndices_SkipMissing(_, _, _, _, _)
FindIndices_SkipMissing(queryLower, candidateLower, i, candidateIndex, matchedIndices) ==
    IF i > Len(queryLower) THEN matchedIndices
    ELSE LET foundIndex == IndexOf(candidateLower, queryLower[i], candidateIndex)
         IN  IF foundIndex = -1
             THEN FindIndices_SkipMissing(queryLower, candidateLower, i + 1,
                                          candidateIndex, matchedIndices)
             ELSE FindIndices_SkipMissing(queryLower, candidateLower, i + 1, foundIndex + 1,
                                          Append(matchedIndices, foundIndex))

RECURSIVE FindIndices(_, _, _, _, _)
FindIndices(queryLower, candidateLower, i, candidateIndex, matchedIndices) ==
    IF i > Len(queryLower) THEN matchedIndices
    ELSE LET foundIndex == IndexOf(candidateLower, queryLower[i], candidateIndex)
         IN  IF foundIndex = -1 THEN <<-1>>
             ELSE FindIndices(queryLower, candidateLower, i + 1, foundIndex + 1,
                              Append(matchedIndices, foundIndex))

\* the body of the second loop for query position i (1-based here)
CharScore_NoBoundaryAtStart(query, candidate, idx, i) ==
    LET index == idx[i]
        consecutive == IF i > 1 /\ idx[i] = idx[i - 1] + 1 THEN ConsecutiveBonus ELSE 0
        boundary == IF index = 0 THEN 0
                    ELSE IF candidate[index] \in WordSeparators THEN BoundaryBonus
                    ELSE 0
        exactCase == IF query[i] = candidate[index + 1] THEN CaseBonus ELSE 0
        gap == IF i > 1 THEN idx[i] - idx[i - 1] - 1 ELSE 0
    IN  consecutive + boundary + exactCase - gap

CharScore_NoGapPenalty(query, candidate, idx, i) ==
    LET index == idx[i]
        consecutive == IF i > 1 /\ idx[i] = idx[i - 1] + 1 THEN ConsecutiveBonus ELSE 0
        boundary == IF index = 0 THEN BoundaryBonus
                    ELSE IF candidate[index] \in WordSeparators THEN BoundaryBonus
                    ELSE 0
        exactCase == IF query[i] = candidate[index + 1] THEN CaseBonus ELSE 0
    IN  consecutive + boundary + exactCase

CharScore(query, candidate, idx, i) ==
    LET index == idx[i]
        consecutive == IF i > 1 /\ idx[i] = idx[i - 1] + 1 THEN ConsecutiveBonus ELSE 0
        boundary == IF index = 0 THEN BoundaryBonus
                    ELSE IF candidate[index] \in WordSeparators THEN BoundaryBonus
                    ELSE 0
        exactCase == IF query[i] = candidate[index + 1] THEN CaseBonus ELSE 0
        gap == IF i > 1 THEN idx[i] - idx[i - 1] - 1 ELSE 0
    IN  consecutive + boundary + exactCase - gap

RECURSIVE SumCharScores(_, _, _, _)
SumCharScores(query, candidate, idx, i) ==
    IF i > Len(idx) THEN 0
    ELSE CharScore(query, candidate, idx, i) + SumCharScores(query, candidate, idx, i + 1)

calculateMatchScore(query, candidate) ==
    IF query = <<>> \/ candidate = <<>> THEN NoMatch
    ELSE LET idx == FindIndices(LowerStr(query), LowerStr(candidate), 1, 0, <<>>)
         IN  IF idx = <<-1>> THEN NoMatch
             ELSE [score |-> BaseScore
                             + (IF Len(idx) > 0 /\ idx[1] = 0 THEN StartBonus ELSE 0)
                             + SumCharScores(query, candidate, idx, 1),
                   matchedIndices |-> idx]

\* Array.prototype.sort with comparator (a, b) => b[field] - a[field]: a
\* stable sort, descending by the field.  Insert places x behind every element
\* whose key is at least x's key.
RECURSIVE InsertDesc_Unstable(_, _, _)
InsertDesc_Unstable(sorted, x, field) ==
    IF sorted = <<>> THEN <<x>>
    ELSE IF Head(sorted)[field] > x[field]
         THEN <<Head(sorted)>> \o InsertDesc_Unstable(Tail(sorted), x, field)
         ELSE <<x>> \o sorted

RECURSIVE InsertDesc(_, _, _)
InsertDesc(sorted, x, field) ==
    IF sorted = <<>> THEN <<x>>
    ELSE IF Head(sorted)[field] >= x[field]
         THEN <<Head(sorted)>> \o InsertDesc(Tail(sorted), x, field)
         ELSE <<x>> \o sorted

RECURSIVE SortDesc(_, _, _)
SortDesc(items, acc, field) ==
    IF items = <<>> THEN acc
    ELSE SortDesc(Tail(items), InsertDesc(acc, Head(items), field), field)

\* the loop of fuzzyMatch: score every candidate, keep those at the threshold
RECURSIVE ScoreAndFilter(_, _)
ScoreAndFilter(query, candidates) ==
    IF candidates = <<>> THEN <<>>
    ELSE LET result == calculateMatchScore(query, Head(candidates).name)
             rest == ScoreAndFilter(query, Tail(candidates))
         IN  IF result.score >= MinScore
             THEN <<[item |-> Head(candidates),
                     score |-> result.score,
                     matchedIndices |-> result.matchedIndices]>> \o rest
             ELSE rest

fuzzyMatch(query, candidates) ==
    SortDesc(ScoreAndFilter(query, candidates), <<>>, "score")

(***************************************************************************)
(* Resolver: switchWorkspace (src/commands/switch.ts)                      *)
(*                                                                         *)
(* The status provider answers, per live workspace, "none" (getWorktreeInfo*)
(* returned null), "quiet" (info, no session) or "active" (info and a      *)
(* running session).  The fields of the info that only feed the display    *)
(* line are fixed (WorktreeStatus).                                        *)
(***************************************************************************)
NoName == <<>>
NoError == [kind |-> "none", listed |-> <<>>]

WorktreeStatus == [branch |-> <<"m">>, ahead |-> 1, behind |-> 0, uncommittedChanges |-> 0]

DisplayNameWidth == 30
ShortNameLimit == 15
ShortNameBonus == 5
ActiveSessionBonus == 10

Whitespace == {" "}
Digits == <<"0", "1", "2", "3", "4", "5", "6", "7", "8", "9">>

\* template-literal rendering of a number below ten
NumStr(n) == <<Digits[n + 1]>>

\* String.prototype.padEnd(width): pads with spaces, never truncates
padEnd(s, width) == s \o Fill(" ", width - Len(s))

RECURSIVE JoinWithSpace(_)
JoinWithSpace(parts) ==
    IF parts = <<>> THEN <<>>
    ELSE IF Len(parts) = 1 THEN parts[1]
    ELSE parts[1] \o <<" ">> \o JoinWithSpace(Tail(parts))

\* selected.split(/\s+/)[0]: the characters before the first whitespace
RECURSIVE FirstToken(_)
FirstToken(s) ==
    IF s = <<>> THEN <<>>
    ELSE IF Head(s) \in Whitespace THEN <<>>
    ELSE <<Head(s)>> \o FirstToken(Tail(s))

\* "[branch +A -B]" or "[branch]", then "N uncommitted" or "clean"
StatusParts(info) ==
    <<IF info.ahead > 0 \/ info.behind > 0
      THEN <<"[">> \o info.branch \o <<" ", "+">> \o NumStr(info.ahead)
           \o <<" ", "-">> \o NumStr(info.behind) \o <<"]">>
      ELSE <<"[">> \o info.branch \o <<"]">>,
      IF info.uncommittedChanges > 0
      THEN NumStr(info.uncommittedChanges) \o <<" ", "u", "n", "c", "o", "m", "m", "i", "t", "t", "e", "d">>
      ELSE <<"c", "l", "e", "a", "n">>>>

formatWorkspaceChoice(ranked) ==
    LET ws == ranked.workspace
        parts == <<padEnd(ws.name, DisplayNameWidth)>> \o StatusParts(ws)
                 \o (IF ws.hasActiveTmuxSession THEN <<<<"(", "t", "m", "u", "x", ")">>>> ELSE <<>>)
    IN  JoinWithSpace(parts)

\* the display line of the argument-less selection (lines 174-200)
WorkspaceOption(name, st) ==
    IF st # "none"
    THEN padEnd(name, DisplayNameWidth) \o <<" ">> \o JoinWithSpace(StatusParts(WorktreeStatus))
    ELSE name

RECURSIVE gatherWorkspaceCandidates(_, _)
gatherWorkspaceCandidates(workspaceNames, status) ==
    IF workspaceNames = <<>> THEN <<>>
    ELSE LET rest == gatherWorkspaceCandidates(Tail(workspaceNames), Tail(status))
         IN  IF Head(status) # "none"
             THEN <<[name |-> Head(workspaceNames),
                     branch |-> WorktreeStatus.branch,
                     ahead |-> WorktreeStatus.ahead,
                     behind |-> WorktreeStatus.behind,
                     uncommittedChanges |-> WorktreeStatus.uncommittedChanges,
                     hasActiveTmuxSession |-> (Head(status) = "active")]>> \o rest
             ELSE rest

RankOne_NoSessionBonus(match) ==
    [workspace |-> match.item,
     matchScore |-> match.score,
     finalScore |-> match.score
                    + (IF Len(match.item.name) <= ShortNameLimit THEN ShortNameBonus ELSE 0),
     matchedIndices |-> match.matchedIndices]

RankOne(match) ==
    [workspace |-> match.item,
     matchScore |-> match.score,
     finalScore |-> match.score
                    + (IF Len(match.item.name) <= ShortNameLimit THEN ShortNameBonus ELSE 0)
                    + (IF match.item.hasActiveTmuxSession THEN ActiveSessionBonus ELSE 0),
     matchedIndices |-> match.matchedIndices]

rankMatches_Unsorted(matches) == [k \in 1..Len(matches) |-> RankOne(matches[k])]

rankMatches(matches) ==
    SortDesc([k \in 1..Len(matches) |-> RankOne(matches[k])], <<>>, "finalScore")

SwIdle ==
    [pc |-> "idle", query |-> <<>>, force |-> FALSE, noTmux |-> FALSE,
     workspaces |-> <<>>, status |-> <<>>,
     candidates |-> <<>>, matches |-> <<>>, ranked |-> <<>>, choices |-> <<>>,
     fuzzyRan |-> FALSE, statusQueries |-> 0, sessionQueries |-> 0,
     picked |-> 0, workspaceName |-> NoName, attached |-> NoName, error |-> NoError]

\* lines 213-228: the workspace is resolved; attach unless --no-tmux
SwResolved(rec, name) ==
    [rec EXCEPT !.pc = "done", !.workspaceName = name,
                !.attached = IF rec.noTmux THEN NoName ELSE name]

\* line 130: workspaces.includes(workspaceNameArg)
ExactHit_NeverExact(workspaces, workspaceNameArg) == FALSE

ExactHit(workspaces, workspaceNameArg) ==
    \E k \in 1..Len(workspaces) : workspaces[k] = workspaceNameArg

\* lines 144-148: the not-found error lists every live workspace
NotFoundError_FirstOnly(workspaces) ==
    [kind |-> "USER_ERROR", listed |-> <<workspaces[1]>>]

NotFoundError(workspaces) == [kind |-> "USER_ERROR", listed |-> workspaces]

\* lines 162-165 and 204-207: the prompt returned null
SwCancelled_Throws(rec) ==
    [rec EXCEPT !.pc = "error", !.error = [kind |-> "USER_ERROR", listed |-> <<>>]]

SwCancelled(rec) == [rec EXCEPT !.pc = "cancelled"]

switchWorkspace(workspaceNameArg, workspaces, status, force, noTmux) ==
    LET start == [SwIdle EXCEPT !.query = workspaceNameArg, !.force = force,
                                !.noTmux = noTmux, !.workspaces = workspaces,
                                !.status = status]
    IN
    IF workspaces = <<>>
    THEN [start EXCEPT !.pc = "error", !.error = [kind |-> "USER_ERROR", listed |-> <<>>]]
    ELSE IF workspaceNameArg # <<>>
    THEN IF ExactHit(workspaces, workspaceNameArg)
         THEN SwResolved(start, workspaceNameArg)
         ELSE LET candidates == gatherWorkspaceCandidates(workspaces, status)
                  matches == fuzzyMatch(workspaceNameArg, candidates)
                  ranked == rankMatches(matches)
                  gathered == [start EXCEPT
                                 !.candidates = candidates, !.matches = matches,
                                 !.fuzzyRan = TRUE,
                                 !.statusQueries = Len(workspaces),
                                 !.sessionQueries = Len(candidates)]
              IN  IF Len(matches) = 0
                  THEN [gathered EXCEPT !.pc = "error",
                                        !.error = NotFoundError(workspaces)]
                  ELSE IF Len(ranked) = 1 \/ force
                  THEN SwResolved([gathered EXCEPT !.ranked = ranked], ranked[1].workspace.name)
                  ELSE [gathered EXCEPT !.pc = "prompt", !.ranked = ranked,
                          !.choices = [k \in 1..Len(ranked) |-> formatWorkspaceChoice(ranked[k])]]
    ELSE [start EXCEPT !.pc = "promptAll",
            !.statusQueries = Len(workspaces),
            !.choices = [k \in 1..Len(workspaces) |-> WorkspaceOption(workspaces[k], status[k])]]

\* selectFromRanked after the user picked the line `selected`: parse the name
\* back out of the line and look it up in the ranked list
selectFromRanked(rec, selected) ==
    LET workspaceName == FirstToken(selected)
        found == {k \in 1..Len(rec.ranked) : rec.ranked[k].workspace.name = workspaceName}
    IN  IF found = {} THEN SwCancelled(rec)
        ELSE SwResolved(rec, rec.ranked[CHOOSE k \in found : \A j \in found : k <= j].workspace.name)

(***************************************************************************)
(* Actions of the resolver                                                 *)
(***************************************************************************)
MaxWs == 3

LongTail == Fill("x", 14)
WsNamePool ==
    {<<"a", "b">>, <<"A", "b">>, <<"a", "-", "b">>,
     <<"A", "b">> \o LongTail,
     <<"x", "A">> \o Fill("x", 23) \o <<"b">>}

SwQueries == {<<>>, <<"a", "b">>, <<"b">>, <<"a", "-">>, <<"A", "b", "x", "x">>}

\* the listings readdirSync can return: distinct names in any order
WsListings ==
    {l \in UNION {[1..k -> WsNamePool] : k \in 0..MaxWs} :
        \A i, j \in 1..Len(l) : i # j => l[i] # l[j]}

\* one invocation of the command; the resolver keeps nothing between invocations
SwitchStart ==
    /\ sw.pc = "idle"
    /\ \E query \in SwQueries, workspaces \in WsListings, force \in BOOLEAN, noTmux \in BOOLEAN :
         \E status \in [1..Len(workspaces) -> {"none", "quiet", "active"}] :
            sw' = switchWorkspace(query, workspaces, status, force, noTmux)
    /\ UNCHANGED <<matchVars, stackVars>>

\* the user picks line i of the prompt
SelectChoice ==
    /\ sw.pc \in {"prompt", "promptAll"}
    /\ \E i \in 1..Len(sw.choices) :
         sw' = IF sw.pc = "prompt"
               THEN selectFromRanked([sw EXCEPT !.picked = i], sw.choices[i])
               ELSE SwResolved([sw EXCEPT !.picked = i], FirstToken(sw.choices[i]))
    /\ UNCHANGED <<matchVars, stackVars>>

\* the user aborts the prompt (selectItem returns null)
SelectCancel ==
    /\ sw.pc \in {"prompt", "promptAll"}
    /\ sw' = SwCancelled(sw)
    /\ UNCHANGED <<matchVars, stackVars>>

(***************************************************************************)
(* Specification of the pure matcher: the inputs are drawn in Init         *)
(***************************************************************************)
NoResult == [score |-> -1000, matchedIndices |-> <<-1>>]

\* candidates with long runs of unmatched characters, so that a successful
\* match can score below the threshold
GapLens == {22, 23, 45}
GapFamily == {pre \o Fill("x", g) \o <<"b">> : pre \in {<<"a">>, <<"x", "A">>}, g \in GapLens}

\* the inputs of the documented examples
Abc == <<"a", "b", "c">>
Fb == <<"f", "b">>
FeatureBranch == <<"f", "e", "a", "t", "u", "r", "e", "-", "b", "r", "a", "n", "c", "h">>

MatchQueries == Strings(MaxQueryLen) \cup {Abc, Fb}
MatchCandidates == Strings(MaxCandLen) \cup GapFamily \cup {Abc, FeatureBranch}

Match ==
    /\ mres = NoResult
    /\ mres' = calculateMatchScore(mq, mc)
    /\ UNCHANGED <<mq, mc, sw, stackVars>>

(***************************************************************************)
(* Stack graph (the stack utilities, src/utils/sanitize.ts lines 94-312)   *)
(*                                                                         *)
(* config.stacks is a JSON object: absent until the first setStackMetadata,*)
(* then a list of own entries in insertion order.  A lookup stacks[name]   *)
(* that finds no own entry falls through to Object.prototype, so a name    *)
(* such as "constructor" yields a truthy value without basedOn/baseBranch. *)
(***************************************************************************)
Names == {"a", "b", "c", "constructor"}

\* the workspaces that the model also creates with --branch <other name>
BranchedNames == {"a"}

\* names that Object.prototype defines
InheritedNames == {"constructor"}

Undefined == ""
BaseBranch == <<"main", 0>>
UndefinedBranch == <<Undefined, 0>>

\* the branch checked out in workspace w
BranchOf(w) == <<w, variant[w]>>

EmptyCfg == [defined |-> FALSE, entries |-> <<>>]

NullMetadata == [kind |-> "null", basedOn |-> Undefined, baseBranch |-> UndefinedBranch]
InheritedMember == [kind |-> "inherited", basedOn |-> Undefined, baseBranch |-> UndefinedBranch]
Metadata(p, b) == [kind |-> "own", basedOn |-> p, baseBranch |-> b]

NoParent == [kind |-> "null", workspaceName |-> Undefined, branch |-> UndefinedBranch]

OwnIndex(c, workspaceName) ==
    {k \in 1..Len(c.entries) : c.entries[k].child = workspaceName}

\* config.stacks?.[workspaceName] || null
getStackMetadata(c, workspaceName) ==
    IF ~c.defined THEN NullMetadata
    ELSE IF OwnIndex(c, workspaceName) # {}
    THEN LET k == CHOOSE k \in OwnIndex(c, workspaceName) : TRUE
         IN  Metadata(c.entries[k].basedOn, c.entries[k].baseBranch)
    ELSE IF workspaceName \in InheritedNames THEN InheritedMember
    ELSE NullMetadata

\* config.stacks[workspaceName] = metadata: overwrite in place or append
setStackMetadata_ReplacesAll(c, workspaceName, metadata) ==
    [defined |-> TRUE,
     entries |-> <<[child |-> workspaceName, basedOn |-> metadata.basedOn,
                    baseBranch |-> metadata.baseBranch]>>]

setStackMetadata(c, workspaceName, metadata) ==
    LET entry == [child |-> workspaceName, basedOn |-> metadata.basedOn,
                  baseBranch |-> metadata.baseBranch]
    IN  [defined |-> TRUE,
         entries |-> IF OwnIndex(c, workspaceName) # {}
                     THEN [k \in 1..Len(c.entries) |->
                             IF c.entries[k].child = workspaceName THEN entry
                             ELSE c.entries[k]]
                     ELSE Append(c.entries, entry)]

\* delete config.stacks[workspaceName], when config.stacks exists
removeStackMetadata(c, workspaceName) ==
    IF c.defined
    THEN [c EXCEPT !.entries = SelectSeq(c.entries, LAMBDA e : e.child # workspaceName)]
    ELSE c

\* the own entries whose basedOn is workspaceName, in insertion order
getStackChildren(c, workspaceName) ==
    LET hits == SelectSeq(c.entries, LAMBDA e : e.basedOn = workspaceName)
    IN  [k \in 1..Len(hits) |-> hits[k].child]

getStackParent(c, workspaceName) ==
    LET metadata == getStackMetadata(c, workspaceName)
    IN  IF metadata.kind = "null" THEN NoParent
        ELSE [kind |-> "parent", workspaceName |-> metadata.basedOn,
              branch |-> metadata.baseBranch]

\* the while loop of detectCircularDependency; current = "" ends it
RECURSIVE CircularWalk_DirectOnly(_, _, _, _)
CircularWalk_DirectOnly(c, current, visited, newWorkspace) ==
    IF current = Undefined THEN FALSE
    ELSE IF current \in visited \/ current = newWorkspace THEN TRUE
    ELSE IF visited # {} THEN FALSE
    ELSE CircularWalk_DirectOnly(c, getStackParent(c, current).workspaceName,
                                 visited \cup {current}, newWorkspace)

RECURSIVE CircularWalk_VisitedOnly(_, _, _, _)
CircularWalk_VisitedOnly(c, current, visited, newWorkspace) ==
    IF current = Undefined THEN FALSE
    ELSE IF current \in visited THEN TRUE
    ELSE CircularWalk_VisitedOnly(c, getStackParent(c, current).workspaceName,
                                  visited \cup {current}, newWorkspace)

\* the walk that compares with newWorkspace only after a step upward
RECURSIVE CircularWalk_CheckAfterStep(_, _, _, _)
CircularWalk_CheckAfterStep(c, current, visited, newWorkspace) ==
    IF current = Undefined THEN FALSE
    ELSE IF current \in visited THEN TRUE
    ELSE LET next == getStackParent(c, current).workspaceName
         IN  IF next = newWorkspace THEN TRUE
             ELSE CircularWalk_CheckAfterStep(c, next, visited \cup {current},
                                              newWorkspace)

RECURSIVE CircularWalk(_, _, _, _)
CircularWalk(c, current, visited, newWorkspace) ==
    IF current = Undefined THEN FALSE
    ELSE IF current \in visited \/ current = newWorkspace THEN TRUE
    ELSE CircularWalk(c, getStackParent(c, current).workspaceName,
                      visited \cup {current}, newWorkspace)

detectCircularDependency(c, parentWorkspace, newWorkspace) ==
    CircularWalk(c, parentWorkspace, {}, newWorkspace)

(***************************************************************************)
(* removeWorkspace (src/commands/remove.ts lines 322-581), one step per    *)
(* child of the cascade                                                    *)
(***************************************************************************)
RmIdle ==
    [pc |-> "idle", workspaceName |-> Undefined, children |-> <<>>,
     parent |-> NoParent, policy |-> "none", idx |-> 1, outcomes |-> <<>>,
     lastDirty |-> FALSE, lastFetched |-> FALSE, lastRebased |-> FALSE,
     before |-> EmptyCfg, effects |-> {}]

\* the command has ended: only its outcome, workspace, policy and what it
\* did outside the stacks ("sessionKilled", "worktreeRemoved",
\* "branchDeleted") stay visible
RmEnd(rec, outcome, effects) ==
    [RmIdle EXCEPT !.pc = outcome, !.workspaceName = rec.workspaceName,
                   !.policy = rec.policy, !.effects = effects]

\* the policy prompt returned null
NullChoice == "null"

\* line 434: !choice || choice.startsWith('Cancel')
IsCancelChoice_AbortOnly(choice) == choice = NullChoice

IsCancelChoice(choice) == choice = NullChoice \/ choice = "Cancel"

RmRunning == rm.pc \in {"cascade", "finish"}

RbIdle ==
    [outcome |-> "idle", dirty |-> FALSE, fetched |-> FALSE, rebased |-> FALSE]

TreeIdle == [pc |-> "idle", unreadable |-> {}, roots |-> <<>>]

\* a process that calls setStackMetadata or removeStackMetadata: the
\* operation, the config it read, how many writes had happened when it
\* read, and whether it wrote
ProcIdle ==
    [pc |-> "idle", op |-> "none", child |-> Undefined, metadata |-> NullMetadata,
     config |-> EmptyCfg, readAt |-> 0, wrote |-> FALSE]

\* a call of detectCircularDependency and its result
DetectIdle ==
    [pc |-> "idle", parentWorkspace |-> Undefined, newWorkspace |-> Undefined,
     result |-> FALSE]

\* writes: the processes in the order of their writeProjectConfig
EdIdle(ids) == [proc |-> [p \in ids |-> ProcIdle], detect |-> DetectIdle, writes |-> <<>>]

StackIdle ==
    /\ cfg = EmptyCfg
    /\ onDisk = {}
    /\ variant = [w \in Names |-> 0]
    /\ rm = RmIdle
    /\ rb = RbIdle
    /\ tree = TreeIdle
    /\ ed = EdIdle({1})

\* lines 518-524: removeStackMetadata for every child
OrphanAll_FirstOnly(c, children) ==
    IF children = <<>> THEN c ELSE removeStackMetadata(c, Head(children))

RECURSIVE OrphanAll(_, _)
OrphanAll(c, children) ==
    IF children = <<>> THEN c
    ELSE OrphanAll(removeStackMetadata(c, Head(children)), Tail(children))

\* lines 322-441: select the workspace, confirm, read children and parent,
\* ask for the policy
RemoveStart ==
    /\ ~RmRunning
    /\ \E workspaceName \in onDisk, confirmed \in BOOLEAN,
          choice \in {NullChoice, "Cancel", "Rebase", "Remove anyway"} :
         LET children == getStackChildren(cfg, workspaceName)
             begun == [RmIdle EXCEPT !.workspaceName = workspaceName, !.before = cfg]
         IN  IF ~confirmed
             THEN rm' = RmEnd(begun, "cancelled", {}) /\ UNCHANGED cfg
             ELSE IF Len(children) = 0
             THEN rm' = [begun EXCEPT !.pc = "finish"] /\ UNCHANGED cfg
             ELSE LET asked == [begun EXCEPT !.children = children,
                                  !.parent = getStackParent(cfg, workspaceName),
                                  !.policy = choice]
                  IN  IF IsCancelChoice(choice)
                      THEN rm' = RmEnd(asked, "cancelled", {}) /\ UNCHANGED cfg
                      ELSE IF choice = "Rebase"
                      THEN rm' = [asked EXCEPT !.pc = "cascade"] /\ UNCHANGED cfg
                      ELSE /\ rm' = [asked EXCEPT !.pc = "finish"]
                           /\ cfg' = OrphanAll(cfg, children)
    /\ rb' = RbIdle
    /\ UNCHANGED <<onDisk, variant, matchVars, sw, tree, ed>>

\* lines 489-509: the metadata update after a successful rebase of child
CascadeUpdate_AlwaysRemove(c, child, parent) == removeStackMetadata(c, child)

CascadeUpdate_DropsOwnEntry(c, child, parent) ==
    removeStackMetadata(
        IF parent.kind # "null"
        THEN IF parent.workspaceName \in onDisk
             THEN setStackMetadata(c, child, Metadata(parent.workspaceName, parent.branch))
             ELSE removeStackMetadata(c, child)
        ELSE removeStackMetadata(c, child),
        rm.workspaceName)

CascadeUpdate_LiveBranch(c, child, parent) ==
    IF parent.kind # "null"
    THEN IF parent.workspaceName \in onDisk
         THEN setStackMetadata(c, child, Metadata(parent.workspaceName,
                                                  BranchOf(parent.workspaceName)))
         ELSE removeStackMetadata(c, child)
    ELSE removeStackMetadata(c, child)

CascadeUpdate(c, child, parent) ==
    IF parent.kind # "null"
    THEN IF parent.workspaceName \in onDisk
         THEN setStackMetadata(c, child, Metadata(parent.workspaceName, parent.branch))
         ELSE removeStackMetadata(c, child)
    ELSE removeStackMetadata(c, child)

\* the git results a child's attempt can have; a parent without a name
\* makes path.join throw inside the try block
CascadeResults(parent) ==
    IF parent.kind # "null" /\ parent.workspaceName = Undefined
    THEN {"threw"}
    ELSE {"fetchFailed", "rebaseFailed", "rebased"}

\* the loop with a failure ending the cascade
CascadeStep_StopOnFailure ==
    /\ rm.pc = "cascade"
    /\ \E result \in CascadeResults(rm.parent), dirty \in BOOLEAN :
         LET child == rm.children[rm.idx]
         IN  /\ cfg' = IF result = "rebased" THEN CascadeUpdate(cfg, child, rm.parent)
                       ELSE cfg
             /\ rm' = [rm EXCEPT !.outcomes = Append(@, result),
                                 !.lastDirty = dirty,
                                 !.lastFetched = (result # "threw"),
                                 !.lastRebased = (result \in {"rebaseFailed", "rebased"}),
                                 !.idx = @ + 1,
                                 !.pc = IF rm.idx = Len(rm.children) \/ result # "rebased"
                                        THEN "finish" ELSE "cascade"]
    /\ UNCHANGED <<onDisk, variant, rb, matchVars, sw, tree, ed>>

\* lines 443-517: one iteration of the loop over the children; dirty is
\* whether the child's working tree has uncommitted changes (the loop never
\* asks), lastFetched and lastRebased whether git fetch and git rebase ran
CascadeStep ==
    /\ rm.pc = "cascade"
    /\ \E result \in CascadeResults(rm.parent), dirty \in BOOLEAN :
         LET child == rm.children[rm.idx]
         IN  /\ cfg' = IF result = "rebased" THEN CascadeUpdate(cfg, child, rm.parent)
                       ELSE cfg
             /\ rm' = [rm EXCEPT !.outcomes = Append(@, result),
                                 !.lastDirty = dirty,
                                 !.lastFetched = (result # "threw"),
                                 !.lastRebased = (result \in {"rebaseFailed", "rebased"}),
                                 !.idx = @ + 1,
                                 !.pc = IF rm.idx = Len(rm.children) THEN "finish"
                                        ELSE "cascade"]
    /\ UNCHANGED <<onDisk, variant, rb, matchVars, sw, tree, ed>>

\* lines 527-581: session, remove scripts, worktree, own metadata, branch;
\* session is "inside" when the command runs in the workspace's own session,
\* "other" when the session exists elsewhere; removeWorktree can throw;
\* the branch stays with --keep-branch or when deleteLocalBranch fails
RemoveFinish ==
    /\ rm.pc = "finish"
    /\ \E session \in {"none", "other", "inside"}, worktreeRemoved \in BOOLEAN,
          branchDeleted \in BOOLEAN :
         LET killed == IF session = "other" THEN {"sessionKilled"} ELSE {}
         IN
         IF session = "inside"
         THEN /\ rm' = RmEnd(rm, "refused", {})
              /\ UNCHANGED <<cfg, onDisk, variant>>
         ELSE IF ~worktreeRemoved
         THEN /\ rm' = RmEnd(rm, "failed", killed)
              /\ UNCHANGED <<cfg, onDisk, variant>>
         ELSE /\ rm' = RmEnd(rm, "removed",
                             killed \cup {"worktreeRemoved"}
                             \cup (IF branchDeleted THEN {"branchDeleted"} ELSE {}))
              /\ onDisk' = onDisk \ {rm.workspaceName}
              /\ variant' = [variant EXCEPT ![rm.workspaceName] = 0]
              /\ cfg' = removeStackMetadata(cfg, rm.workspaceName)
    /\ UNCHANGED <<rb, matchVars, sw, tree, ed>>

(***************************************************************************)
(* addWorkspace (src/commands/add.ts lines 154-367)                        *)
(***************************************************************************)
\* lines 297-331: a new worktree; the stacks are not touched
AddWorkspace ==
    /\ ~RmRunning
    /\ \E workspaceName \in Names \ onDisk, v \in {0, 1} :
         /\ v = 1 => workspaceName \in BranchedNames
         /\ onDisk' = onDisk \cup {workspaceName}
         /\ variant' = [variant EXCEPT ![workspaceName] = v]
    /\ rm' = RmIdle
    /\ rb' = RbIdle
    /\ UNCHANGED <<cfg, matchVars, sw, tree, ed>>

\* add --stacked: the new workspace is based on an existing one; the edge is
\* created only when detectCircularDependency returned false
AddStackedWorkspace ==
    /\ ~RmRunning
    /\ \E workspaceName \in Names \ onDisk, parentWorkspace \in onDisk :
         /\ ~detectCircularDependency(cfg, parentWorkspace, workspaceName)
         /\ onDisk' = onDisk \cup {workspaceName}
         /\ variant' = [variant EXCEPT ![workspaceName] = 0]
         /\ cfg' = setStackMetadata(cfg, workspaceName,
                                    Metadata(parentWorkspace, BranchOf(parentWorkspace)))
    /\ rm' = RmIdle
    /\ rb' = RbIdle
    /\ UNCHANGED <<matchVars, sw, tree, ed>>

(***************************************************************************)
(* rebaseStack (the rebase-stack command, src/commands/switch.ts 394-516)  *)
(***************************************************************************)
\* the command with a success that rewrites the edge from the parent's
\* checked-out branch
RebaseStack_Repoints ==
    /\ ~RmRunning
    /\ \E workspaceName \in onDisk,
          answer \in {"dirty", "fetchFailed", "declined", "rebased", "conflict"} :
         LET stackMetadata == getStackMetadata(cfg, workspaceName)
             outcome == IF stackMetadata.kind = "null" THEN "notStacked"
                        ELSE IF stackMetadata.basedOn = Undefined THEN "threw"
                        ELSE IF stackMetadata.basedOn \notin onDisk THEN "parentMissing"
                        ELSE answer
         IN  /\ rb' = [outcome |-> outcome, dirty |-> (answer = "dirty"),
                       fetched |-> (outcome \in {"fetchFailed", "declined", "rebased", "conflict"}),
                       rebased |-> (outcome \in {"rebased", "conflict"})]
             /\ cfg' = IF outcome = "rebased"
                       THEN setStackMetadata(cfg, workspaceName,
                                Metadata(stackMetadata.basedOn, BranchOf(stackMetadata.basedOn)))
                       ELSE cfg
    /\ rm' = RmIdle
    /\ UNCHANGED <<onDisk, variant, matchVars, sw, tree, ed>>

\* the outcome for the workspace the command is run in; answer is what git
\* and the user do once asked: "dirty" (git status lists changes),
\* "fetchFailed", "declined" (the confirmation), "rebased" or "conflict";
\* fetched and rebased tell whether git fetch and git rebase were run.
\* The stacks are only read.
rebaseStack(c, workspaceName, answer) ==
    LET stackMetadata == getStackMetadata(c, workspaceName)
        ended(outcome, fetched, rebased) ==
            [outcome |-> outcome, dirty |-> (answer = "dirty"),
             fetched |-> fetched, rebased |-> rebased]
    IN  IF stackMetadata.kind = "null" THEN ended("notStacked", FALSE, FALSE)
        ELSE IF stackMetadata.basedOn = Undefined THEN ended("threw", FALSE, FALSE)
        ELSE IF stackMetadata.basedOn \notin onDisk THEN ended("parentMissing", FALSE, FALSE)
        ELSE IF answer = "dirty" THEN ended("uncommitted", FALSE, FALSE)
        ELSE IF answer = "fetchFailed" THEN ended("fetchFailed", TRUE, FALSE)
        ELSE IF answer = "declined" THEN ended("declined", TRUE, FALSE)
        ELSE IF answer = "rebased" THEN ended("rebased", TRUE, TRUE)
        ELSE ended("conflict", TRUE, TRUE)

RebaseStack ==
    /\ ~RmRunning
    /\ \E workspaceName \in onDisk,
          answer \in {"dirty", "fetchFailed", "declined", "rebased", "conflict"} :
         rb' = rebaseStack(cfg, workspaceName, answer)
    /\ rm' = RmIdle
    /\ UNCHANGED <<cfg, onDisk, variant, matchVars, sw, tree, ed>>

(***************************************************************************)
(* getStackTree (src/utils/sanitize.ts lines 205-283)                      *)
(***************************************************************************)
\* readdirSync(workspacesDir): the directory names in name order
NameOrder == <<"a", "b", "c", "constructor">>
Listing(S) == SelectSeq(NameOrder, LAMBDA w : w \in S)

\* the null that buildNode returns
NullNode ==
    [workspaceName |-> Undefined, branch |-> UndefinedBranch, children |-> <<>>,
     depth |-> -1]

\* stacks[workspace] !== undefined, with stacks = config.stacks || {}: an own
\* entry or an inherited member
HasStackEntry_Never(c, workspace) == FALSE

HasStackEntry_InheritedOnly(c, workspace) == workspace \in InheritedNames

HasStackEntry(c, workspace) ==
    OwnIndex(c, workspace) # {} \/ workspace \in InheritedNames

\* workspaceBranches holds the workspaces whose getWorktreeInfo succeeded
RECURSIVE buildNode(_, _, _, _, _)
buildNode(c, workspaceBranches, workspaceName, depth, visited) ==
    IF workspaceName \in visited THEN NullNode
    ELSE IF workspaceName \notin workspaceBranches THEN NullNode
    ELSE LET children == getStackChildren(c, workspaceName)
             built == [k \in 1..Len(children) |->
                         buildNode(c, workspaceBranches, children[k], depth + 1,
                                   visited \cup {workspaceName})]
         IN  [workspaceName |-> workspaceName,
              branch |-> BranchOf(workspaceName),
              children |-> SelectSeq(built, LAMBDA n : n # NullNode),
              depth |-> depth]

getStackTree(c, allWorkspaces, workspaceBranches) ==
    LET rootNames == SelectSeq(allWorkspaces, LAMBDA w : ~HasStackEntry(c, w))
        built == [k \in 1..Len(rootNames) |->
                    buildNode(c, workspaceBranches, rootNames[k], 0, {})]
    IN  SelectSeq(built, LAMBDA n : n # NullNode)

\* the stacks a project config file can hold over the modelled names: every
\* name has no entry or an entry naming any workspace, in either key order
ParentChoices == [Names -> Names \cup {Undefined}]

EntriesOf(f, order) ==
    LET named == SelectSeq(order, LAMBDA w : f[w] # Undefined)
    IN  [k \in 1..Len(named) |->
            [child |-> named[k], basedOn |-> f[named[k]],
             baseBranch |-> <<f[named[k]], 0>>]]

Reverse(q) == [k \in 1..Len(q) |-> q[Len(q) + 1 - k]]

TreeConfigs ==
    {EmptyCfg} \cup
    {[defined |-> TRUE, entries |-> EntriesOf(f, order)] :
        f \in ParentChoices, order \in {NameOrder, Reverse(NameOrder)}}

\* the stack command: list the workspaces, read their branches, build the tree
StackTree ==
    /\ tree.pc = "idle"
    /\ \E unreadable \in SUBSET onDisk :
         tree' = [pc |-> "done", unreadable |-> unreadable,
                  roots |-> getStackTree(cfg, Listing(onDisk), onDisk \ unreadable)]
    /\ UNCHANGED <<cfg, onDisk, variant, rm, rb, matchVars, sw, ed>>

(***************************************************************************)
(* The edge store used directly (src/utils/sanitize.ts lines 108-147 and   *)
(* 289-312, core/config.ts readProjectConfig and writeProjectConfig)       *)
(***************************************************************************)
\* setStackMetadata / removeStackMetadata, first half: readProjectConfig
EdgeRead ==
    /\ ed.detect.pc = "idle"
    /\ \E p \in DOMAIN ed.proc, op \in {"setEdge", "removeEdge"},
          child \in Names, parent \in Names :
         /\ ed.proc[p].pc = "idle"
         /\ op = "removeEdge" => parent = child
         /\ \A q \in DOMAIN ed.proc : ed.proc[q].child # child
         /\ ed' = [ed EXCEPT !.proc[p] =
                      [pc |-> "read", op |-> op, child |-> child,
                       metadata |-> IF op = "setEdge" THEN Metadata(parent, <<parent, 0>>)
                                    ELSE NullMetadata,
                       config |-> cfg, readAt |-> Len(ed.writes), wrote |-> FALSE]]
    /\ UNCHANGED <<cfg, onDisk, variant, rm, rb, tree, matchVars, sw>>

\* second half: change the parsed object and writeProjectConfig; a
\* removeStackMetadata that found no stacks object writes nothing
EdgeWrite ==
    /\ \E p \in DOMAIN ed.proc :
         LET me == ed.proc[p]
             writes == me.op = "setEdge" \/ me.config.defined
         IN  /\ me.pc = "read"
             /\ cfg' = IF me.op = "setEdge"
                       THEN setStackMetadata(me.config, me.child, me.metadata)
                       ELSE IF writes THEN removeStackMetadata(me.config, me.child)
                       ELSE cfg
             /\ ed' = [ed EXCEPT !.proc[p].pc = "done", !.proc[p].wrote = writes,
                                 !.writes = IF writes THEN Append(@, p) ELSE @]
    /\ UNCHANGED <<onDisk, variant, rm, rb, tree, matchVars, sw>>

\* one call of detectCircularDependency(parentWorkspace, newWorkspace)
DetectCircular ==
    /\ ed.detect.pc = "idle"
    /\ \A p \in DOMAIN ed.proc : ed.proc[p].pc = "idle"
    /\ \E parentWorkspace \in Names, newWorkspace \in Names :
         ed' = [ed EXCEPT !.detect =
                  [pc |-> "done", parentWorkspace |-> parentWorkspace,
                   newWorkspace |-> newWorkspace,
                   result |-> detectCircularDependency(cfg, parentWorkspace, newWorkspace)]]
    /\ UNCHANGED <<cfg, onDisk, variant, rm, rb, tree, matchVars, sw>>

\* the mappings two concurrent processes start from: b and c with no entry
\* or based on a
ConcConfigs ==
    {EmptyCfg} \cup
    {[defined |-> TRUE, entries |-> EntriesOf(f, NameOrder)] :
        f \in {g \in ParentChoices :
                  /\ g["a"] = Undefined /\ g["constructor"] = Undefined
                  /\ g["b"] \in {Undefined, "a"} /\ g["c"] \in {Undefined, "a"}}}

(***************************************************************************)
(* Specifications: the matcher alone, one resolver invocation, and the     *)
(* commands that change the stack graph                                    *)
(***************************************************************************)
InitMatch ==
    /\ mq \in MatchQueries
    /\ mc \in MatchCandidates
    /\ mres = NoResult
    /\ sw = SwIdle
    /\ StackIdle

NextMatch == Match

SpecMatch == InitMatch /\ [][NextMatch]_vars

InitSwitch ==
    /\ mq = <<>>
    /\ mc = <<>>
    /\ mres = NoMatch
    /\ sw = SwIdle
    /\ StackIdle

NextSwitch == SwitchStart \/ SelectChoice \/ SelectCancel

SpecSwitch == InitSwitch /\ [][NextSwitch]_vars

InitStack ==
    /\ mq = <<>>
    /\ mc = <<>>
    /\ mres = NoMatch
    /\ sw = SwIdle
    /\ StackIdle

NextStack ==
    \/ AddWorkspace
    \/ AddStackedWorkspace
    \/ RemoveStart
    \/ CascadeStep
    \/ RemoveFinish
    \/ RebaseStack

SpecStack == InitStack /\ [][NextStack]_vars

InitTree ==
    /\ mq = <<>>
    /\ mc = <<>>
    /\ mres = NoMatch
    /\ sw = SwIdle
    /\ cfg \in TreeConfigs
    /\ onDisk \in SUBSET Names
    /\ variant = [w \in Names |-> 0]
    /\ rm = RmIdle
    /\ rb = RbIdle
    /\ tree = TreeIdle
    /\ ed = EdIdle({1})

NextTree == StackTree

SpecTree == InitTree /\ [][NextTree]_vars

\* one process on any mapping
InitEdges ==
    /\ mq = <<>>
    /\ mc = <<>>
    /\ mres = NoMatch
    /\ sw = SwIdle
    /\ cfg \in TreeConfigs
    /\ onDisk = {}
    /\ variant = [w \in Names |-> 0]
    /\ rm = RmIdle
    /\ rb = RbIdle
    /\ tree = TreeIdle
    /\ ed = EdIdle({1})

NextEdges == EdgeRead \/ EdgeWrite \/ DetectCircular

SpecEdges == InitEdges /\ [][NextEdges]_vars

\* two processes whose reads and writes interleave freely
InitConc ==
    /\ mq = <<>>
    /\ mc = <<>>
    /\ mres = NoMatch
    /\ sw = SwIdle
    /\ cfg \in ConcConfigs
    /\ onDisk = {}
    /\ variant = [w \in Names |-> 0]
    /\ rm = RmIdle
    /\ rb = RbIdle
    /\ tree = TreeIdle
    /\ ed = EdIdle({1, 2})

NextConc == EdgeRead \/ EdgeWrite

SpecConc == InitConc /\ [][NextConc]_vars

(***************************************************************************)
(* Properties of the resolver (checked under SpecSwitch)                   *)
(***************************************************************************)
SwNames == {sw.workspaces[k] : k \in 1..Len(sw.workspaces)}

\* the typed name is one of the live names
SwExact == sw.query \in SwNames

\* the invocation took the fuzzy path: a name was typed and it is not live
SwFuzzyPath == sw.pc # "idle" /\ sw.workspaces # <<>> /\ sw.query # <<>> /\ ~SwExact

\* finalScore as the ranker is specified, for entry k of the match list
FinalScoreAt(k) ==
    sw.matches[k].score
    + (IF Len(sw.matches[k].item.name) <= 15 THEN 5 ELSE 0)
    + (IF sw.matches[k].item.hasActiveTmuxSession THEN 10 ELSE 0)

\* the entry of the match list with the highest finalScore, the earliest on ties
TopRanked(k) ==
    /\ \A j \in 1..Len(sw.matches) : FinalScoreAt(j) <= FinalScoreAt(k)
    /\ \A j \in 1..(k - 1) : FinalScoreAt(j) < FinalScoreAt(k)

\* what a live workspace would score had it been matched and ranked
WouldBeFinal(k) ==
    calculateMatchScore(sw.query, sw.workspaces[k]).score
    + (IF Len(sw.workspaces[k]) <= 15 THEN 5 ELSE 0)
    + (IF sw.status[k] = "active" THEN 10 ELSE 0)

\* C5: a typed name that equals a live workspace name selects that workspace
\* at once: no status or session query, no fuzzy matching, no ranking, no
\* prompt, and no other workspace is selected.
ExactMatchWins ==
    (sw.pc # "idle" /\ sw.workspaces # <<>> /\ sw.query # <<>> /\ SwExact)
        => /\ sw.pc = "done"
           /\ sw.workspaceName = sw.query
           /\ sw.statusQueries = 0 /\ sw.sessionQueries = 0
           /\ ~sw.fuzzyRan
           /\ sw.matches = <<>> /\ sw.ranked = <<>> /\ sw.choices = <<>>
           /\ sw.picked = 0
           /\ sw.attached \in {NoName, sw.query}

\* an exact hit was selected although another live workspace would have a
\* strictly higher final score, under --force
ExactMatchWinsWitness ==
    /\ sw.pc = "done" /\ sw.query # <<>> /\ SwExact /\ sw.force
    /\ sw.workspaceName = sw.query
    /\ \E k, e \in 1..Len(sw.workspaces) :
         /\ sw.workspaces[e] = sw.query
         /\ sw.status[k] # "none"
         /\ WouldBeFinal(k) > WouldBeFinal(e)

\* C6: on the fuzzy path with at least one match: with exactly one match or
\* with force the top-ranked match (highest finalScore, first on ties) is
\* selected without a prompt; otherwise nothing is selected until the user
\* picks, and the selection is the picked entry of the ranked list.
FuzzySelection ==
    (SwFuzzyPath /\ sw.matches # <<>>)
        => IF Len(sw.matches) = 1 \/ sw.force
           THEN /\ sw.pc = "done"
                /\ sw.choices = <<>> /\ sw.picked = 0
                /\ \E k \in 1..Len(sw.matches) :
                     TopRanked(k) /\ sw.workspaceName = sw.matches[k].item.name
           ELSE /\ sw.pc \in {"prompt", "done", "cancelled"}
                /\ Len(sw.choices) = Len(sw.matches)
                /\ sw.pc = "prompt" => (sw.workspaceName = NoName /\ sw.picked = 0)
                /\ sw.pc = "done" =>
                     /\ sw.picked \in 1..Len(sw.ranked)
                     /\ sw.workspaceName = sw.ranked[sw.picked].workspace.name

\* force chose among several matches, and the top-ranked one is not the
\* first of the match list (the session bonus reordered it)
FuzzySelectionWitness ==
    /\ SwFuzzyPath /\ sw.force /\ sw.pc = "done"
    /\ Len(sw.matches) >= 2
    /\ sw.workspaceName # sw.matches[1].item.name

\* C7: on the fuzzy path with no match the command fails with a user error
\* that lists every live workspace name; nothing is selected or attached.
NotFoundListsAll ==
    (SwFuzzyPath /\ sw.matches = <<>>)
        => /\ sw.pc = "error"
           /\ sw.error.kind = "USER_ERROR"
           /\ sw.error.listed = sw.workspaces
           /\ sw.workspaceName = NoName
           /\ sw.attached = NoName

\* no match among two or more live workspaces that all have a status
NotFoundListsAllWitness ==
    /\ SwFuzzyPath /\ sw.matches = <<>> /\ sw.pc = "error"
    /\ Len(sw.workspaces) >= 2
    /\ \A k \in 1..Len(sw.status) : sw.status[k] # "none"

\* C8: aborting the disambiguation prompt ends the resolution as Cancelled:
\* no error, no selected workspace, no session created or attached.
CancelIsNotAnError ==
    [][(sw.pc = "prompt" /\ sw'.pc # "prompt" /\ sw'.picked = 0)
          => /\ sw'.pc = "cancelled"
             /\ sw'.error = NoError
             /\ sw'.workspaceName = NoName
             /\ sw'.attached = NoName]_vars

\* the disambiguation prompt was aborted
CancelIsNotAnErrorWitness ==
    /\ sw.pc = "cancelled" /\ sw.picked = 0
    /\ sw.query # <<>> /\ Len(sw.choices) >= 2 /\ ~sw.noTmux

\* score of candidate k for the typed query
CandScore(k) == calculateMatchScore(sw.query, sw.candidates[k].name).score

\* position of a matched item in the candidate list
CandPos(m) == CHOOSE k \in 1..Len(sw.candidates) : sw.candidates[k] = m.item

\* C9: fuzzyMatch returns exactly the candidates scoring at least 30, each
\* once and with its score, ordered by score descending, equal scores in
\* input order.
FuzzyMatchFloorAndOrder ==
    sw.fuzzyRan
        => /\ \A i \in 1..Len(sw.matches) :
                /\ sw.matches[i].score >= 30
                /\ \E k \in 1..Len(sw.candidates) :
                     /\ sw.matches[i].item = sw.candidates[k]
                     /\ sw.matches[i].score = CandScore(k)
           /\ \A k \in 1..Len(sw.candidates) :
                CandScore(k) >= 30
                    => Cardinality({i \in 1..Len(sw.matches) :
                                      sw.matches[i].item = sw.candidates[k]}) = 1
           /\ Len(sw.matches) = Cardinality({k \in 1..Len(sw.candidates) : CandScore(k) >= 30})
           /\ \A i, j \in 1..Len(sw.matches) :
                i < j => \/ sw.matches[i].score > sw.matches[j].score
                         \/ /\ sw.matches[i].score = sw.matches[j].score
                            /\ CandPos(sw.matches[i]) < CandPos(sw.matches[j])

\* one candidate matched below the floor and was discarded, and two kept
\* candidates have the same score
FuzzyMatchFloorAndOrderWitness ==
    /\ sw.fuzzyRan
    /\ \E k \in 1..Len(sw.candidates) : CandScore(k) > 0 /\ CandScore(k) < 30
    /\ \E i, j \in 1..Len(sw.matches) : i < j /\ sw.matches[i].score = sw.matches[j].score

\* position of a ranked entry in the match list handed to rankMatches
MatchPos(r) == CHOOSE k \in 1..Len(sw.matches) : sw.matches[k].item = r.workspace

\* C13: rankMatches gives every match finalScore = matchScore + 5 (name of at
\* most 15 characters) + 10 (active session) and orders by finalScore
\* descending, ties in input order; of two entries with equal matchScore the
\* one with an active session stands before the one without.
RankByFinalScore ==
    sw.ranked # <<>>
        => /\ Len(sw.ranked) = Len(sw.matches)
           /\ \A k \in 1..Len(sw.matches) :
                Cardinality({i \in 1..Len(sw.ranked) :
                               /\ sw.ranked[i].workspace = sw.matches[k].item
                               /\ sw.ranked[i].matchScore = sw.matches[k].score
                               /\ sw.ranked[i].finalScore = FinalScoreAt(k)}) = 1
           /\ \A i, j \in 1..Len(sw.ranked) :
                i < j => \/ sw.ranked[i].finalScore > sw.ranked[j].finalScore
                         \/ /\ sw.ranked[i].finalScore = sw.ranked[j].finalScore
                            /\ MatchPos(sw.ranked[i]) < MatchPos(sw.ranked[j])
           /\ \A i, j \in 1..Len(sw.ranked) :
                (/\ sw.ranked[i].matchScore = sw.ranked[j].matchScore
                 /\ sw.ranked[i].workspace.hasActiveTmuxSession
                 /\ ~sw.ranked[j].workspace.hasActiveTmuxSession) => i < j

\* equal matchScore: a long name with an active session came behind a short
\* name without one in the match list and is ranked before it; and two
\* entries tie on finalScore
RankByFinalScoreWitness ==
    /\ Len(sw.ranked) = 3
    /\ \E i, j \in 1..3 :
         /\ i < j
         /\ sw.ranked[i].matchScore = sw.ranked[j].matchScore
         /\ sw.ranked[i].workspace.hasActiveTmuxSession
         /\ ~sw.ranked[j].workspace.hasActiveTmuxSession
         /\ Len(sw.ranked[i].workspace.name) > 15
         /\ Len(sw.ranked[j].workspace.name) <= 15
         /\ MatchPos(sw.ranked[i]) > MatchPos(sw.ranked[j])
    /\ \E i, j \in 1..3 : i # j /\ sw.ranked[i].finalScore = sw.ranked[j].finalScore

\* C26: every FuzzyMatch that fuzzyMatch returns has a score within 0 to 100
\* inclusive.
MatchScoresWithin0To100 ==
    \A i \in 1..Len(sw.matches) : sw.matches[i].score \in 0..100

\* C30: with no exact hit every live workspace name takes part in fuzzy
\* matching: a live workspace whose score for the query is at least 30 is
\* among the matches, also when the status provider returns none for it,
\* and the not-found error is raised only when no live name scores 30.
EveryLiveNameIsMatched ==
    SwFuzzyPath
        => /\ \A k \in 1..Len(sw.workspaces) :
                calculateMatchScore(sw.query, sw.workspaces[k]).score >= MinScore
                    => \E i \in 1..Len(sw.matches) :
                          sw.matches[i].item.name = sw.workspaces[k]
           /\ sw.pc = "error"
                => \A k \in 1..Len(sw.workspaces) :
                      calculateMatchScore(sw.query, sw.workspaces[k]).score < MinScore

(***************************************************************************)
(* Properties of the stack graph (checked under SpecStack)                 *)
(***************************************************************************)
\* the parents the own entries give to w
EdgeParents(c, w) ==
    {c.entries[k].basedOn : k \in {j \in 1..Len(c.entries) : c.entries[j].child = w}}

\* the workspaces reached from w by following one to k edges upward
RECURSIVE AncestorsWithin(_, _, _)
AncestorsWithin(c, w, k) ==
    IF k = 0 THEN {}
    ELSE EdgeParents(c, w) \cup UNION {AncestorsWithin(c, q, k - 1) : q \in EdgeParents(c, w)}

Ancestors(c, w) == AncestorsWithin(c, w, Cardinality(Names))

Acyclic(c) == \A w \in Names : w \notin Ancestors(c, w)

\* the removal cascade is running or has just run
InCascade == rm.pc \in {"cascade", "finish"} /\ rm.policy = "Rebase"

\* C1: the edge mapping stays a forest under stacked creation guarded by
\* detectCircularDependency, removal under every policy (with failing
\* children), rebase-stack and plain creation with reused names.
EdgesStayForest == Acyclic(cfg)

\* a cascade has re-pointed one child with the unguarded setStackMetadata
\* and left another child with its edge to the workspace being removed
EdgesStayForestWitness ==
    /\ rm.pc = "finish" /\ rm.policy = "Rebase"
    /\ rm.parent.kind = "parent" /\ rm.parent.workspaceName \in onDisk
    /\ \E i, j \in 1..Len(rm.outcomes) :
         /\ rm.outcomes[i] = "rebased" /\ rm.outcomes[j] # "rebased"
         /\ getStackParent(cfg, rm.children[i]).workspaceName = rm.parent.workspaceName
         /\ getStackParent(cfg, rm.children[j]).workspaceName = rm.workspaceName

\* C2: on an acyclic mapping detectCircularDependency(candidateParent,
\* proposedChild) is true exactly when proposedChild is candidateParent or
\* one of its transitive ancestors.
DetectsExactlyCycles ==
    Acyclic(cfg)
        => \A candidateParent, proposedChild \in Names :
              detectCircularDependency(cfg, candidateParent, proposedChild)
                  <=> (proposedChild = candidateParent
                       \/ proposedChild \in Ancestors(cfg, candidateParent))

\* the edges {B: A, C: B}: true for (C, A), false for (A, C)
DetectsExactlyCyclesWitness ==
    \E A, B, C \in Names :
        /\ A # B /\ B # C /\ A # C
        /\ EdgeParents(cfg, B) = {A} /\ EdgeParents(cfg, C) = {B} /\ EdgeParents(cfg, A) = {}
        /\ detectCircularDependency(cfg, C, A)
        /\ ~detectCircularDependency(cfg, A, C)

\* C3: the cascade attempts every child once, in the order getStackChildren
\* gave, whatever failed before; a failed child keeps its edge to the removed
\* workspace, a rebased child has a changed edge, and a child not yet
\* attempted is untouched.
CascadeContinuesPastFailures ==
    InCascade
        => /\ rm.children = getStackChildren(rm.before, rm.workspaceName)
           /\ Len(rm.outcomes) = rm.idx - 1
           /\ Len(rm.outcomes) <= Len(rm.children)
           /\ rm.pc = "finish" => Len(rm.outcomes) = Len(rm.children)
           /\ \A i \in 1..Len(rm.children) :
                LET now == getStackMetadata(cfg, rm.children[i])
                    was == getStackMetadata(rm.before, rm.children[i])
                IN  /\ was.kind = "own" /\ was.basedOn = rm.workspaceName
                    /\ (i > Len(rm.outcomes) \/ rm.outcomes[i] # "rebased") => now = was
                    /\ (i <= Len(rm.outcomes) /\ rm.outcomes[i] = "rebased") => now # was

\* three children, the second failed: the first and the third are re-pointed
CascadeContinuesPastFailuresWitness ==
    /\ rm.pc = "finish" /\ rm.policy = "Rebase"
    /\ Len(rm.children) = 3
    /\ rm.outcomes[1] = "rebased" /\ rm.outcomes[2] # "rebased" /\ rm.outcomes[3] = "rebased"
    /\ getStackParent(cfg, rm.children[1]).workspaceName # rm.workspaceName
    /\ getStackParent(cfg, rm.children[2]).workspaceName = rm.workspaceName
    /\ getStackParent(cfg, rm.children[3]).workspaceName # rm.workspaceName

\* C14: a rebase attempt on a workspace with uncommitted changes, by
\* rebase-stack or as a step of the removal cascade, is refused with a
\* precondition failure and runs neither the fetch nor the rebase.
DirtyRebaseRefused ==
    /\ (rb.dirty /\ rb.outcome \notin {"idle", "notStacked", "threw", "parentMissing"})
          => (rb.outcome = "uncommitted" /\ ~rb.fetched /\ ~rb.rebased)
    /\ (InCascade /\ rm.outcomes # <<>> /\ rm.lastDirty)
          => /\ rm.outcomes[Len(rm.outcomes)] = "uncommitted"
             /\ ~rm.lastFetched /\ ~rm.lastRebased

\* C17: when a workspace with children is removed and the user chooses
\* Cancel or aborts the policy prompt, the removal is cancelled: the edge
\* mapping is unchanged, no child is rebased, the session is not killed, and
\* the workspace and its branch still exist.
CancelChangesNothing ==
    [][(rm'.policy \in {"Cancel", NullChoice})
          => /\ rm'.pc = "cancelled"
             /\ ~RmRunning
             /\ cfg' = cfg
             /\ onDisk' = onDisk /\ rm'.workspaceName \in onDisk'
             /\ variant' = variant
             /\ rm'.effects = {}
             /\ rm'.outcomes = <<>>]_vars

\* the removal of a workspace with two children was cancelled at the policy
\* prompt; both edges are still there
CancelChangesNothingWitness ==
    /\ rm.pc = "cancelled" /\ rm.policy = "Cancel"
    /\ rm.workspaceName \in onDisk
    /\ Len(getStackChildren(cfg, rm.workspaceName)) = 2

SeqToSet(q) == {q[k] : k \in 1..Len(q)}

\* C18: when a removal under the orphan policy completes, every former
\* child has no entry, the removed workspace has no entry, no remaining
\* entry names the removed workspace as basedOn, and every other entry
\* (the edges of grandchildren onto the former children included) is as it
\* was when the removal began.
OrphanRemovesChildEdges ==
    [][(rm.pc = "finish" /\ rm.policy = "Remove anyway" /\ rm'.pc = "removed")
          => /\ rm.children = getStackChildren(rm.before, rm.workspaceName)
             /\ rm.children # <<>>
             /\ \A child \in SeqToSet(rm.children) : OwnIndex(cfg', child) = {}
             /\ OwnIndex(cfg', rm.workspaceName) = {}
             /\ \A k \in 1..Len(cfg'.entries) : cfg'.entries[k].basedOn # rm.workspaceName
             /\ cfg'.entries
                  = SelectSeq(rm.before.entries,
                              LAMBDA e : e.child \notin SeqToSet(rm.children)
                                                       \cup {rm.workspaceName})]_vars

\* an orphaning removal has completed and an edge onto a workspace that is
\* now a root is still in the mapping, as is the workspace on disk
OrphanRemovesChildEdgesWitness ==
    /\ rm.pc = "removed" /\ rm.policy = "Remove anyway"
    /\ rm.workspaceName \notin onDisk
    /\ \E k \in 1..Len(cfg.entries) :
         /\ cfg.entries[k].basedOn \in onDisk
         /\ cfg.entries[k].child \in onDisk
         /\ OwnIndex(cfg, cfg.entries[k].basedOn) = {}

\* the workspaces whose entry the step deletes
Deleted ==
    IF cfg' = cfg THEN {}
    ELSE {w \in Names : OwnIndex(cfg, w) # {} /\ OwnIndex(cfg', w) = {}}

\* the step is a cascade iteration whose rebase succeeded
CascadeSuccess ==
    /\ rm.pc = "cascade" /\ Len(rm'.outcomes) = Len(rm.outcomes) + 1
    /\ rm'.outcomes[Len(rm'.outcomes)] = "rebased"

\* the step removes w's own workspace
OwnRemoval(w) == w \in onDisk /\ w \notin onDisk'

\* the step is the orphaning of the children of w's parent
ParentOrphaning(w) ==
    /\ ~RmRunning /\ rm'.pc = "finish" /\ rm'.policy = "Remove anyway"
    /\ EdgeParents(cfg, w) = {rm'.workspaceName}

\* C19 as stated: an entry is deleted only when its own workspace is removed
\* or its parent is removed under the orphan policy; a successful cascading
\* rebase re-points the child's entry and never deletes it.
DeletedOnlyByRemovalOrOrphan ==
    [][/\ \A w \in Deleted : OwnRemoval(w) \/ ParentOrphaning(w)
       /\ CascadeSuccess => OwnIndex(cfg', rm.children[rm.idx]) # {}]_vars

\* C19 amended: an entry is deleted only by the removal of its own
\* workspace, by the orphan policy of a removal command run on its parent
\* (before the worktree is removed), or by a successful cascading rebase
\* when the removed workspace has no edge of its own or the parent recorded
\* in that edge is no longer on disk; a successful cascading rebase onto a
\* recorded parent that is on disk re-points the entry and does not delete it.
DeletedByRemovalOrphanOrRootCascade ==
    [][/\ \A w \in Deleted :
            \/ OwnRemoval(w)
            \/ ParentOrphaning(w)
            \/ /\ CascadeSuccess /\ w = rm.children[rm.idx]
               /\ rm.parent.kind = "null" \/ rm.parent.workspaceName \notin onDisk
       /\ (CascadeSuccess /\ rm.parent.kind # "null" /\ rm.parent.workspaceName \in onDisk)
            => /\ OwnIndex(cfg', rm.children[rm.idx]) # {}
               /\ EdgeParents(cfg', rm.children[rm.idx]) = {rm.parent.workspaceName}]_vars

\* the cascade of a workspace without an edge: the rebased child has lost
\* its entry, the failed child still has its edge
DeletedByRemovalOrphanOrRootCascadeWitness ==
    /\ rm.pc = "finish" /\ rm.policy = "Rebase" /\ rm.parent.kind = "null"
    /\ \E i, j \in 1..Len(rm.outcomes) :
         /\ rm.outcomes[i] = "rebased" /\ OwnIndex(cfg, rm.children[i]) = {}
         /\ rm.outcomes[j] # "rebased"
         /\ EdgeParents(cfg, rm.children[j]) = {rm.workspaceName}

\* C20: when the removed workspace W has an edge (P, B) and a child's
\* cascade rebase succeeds while P is on disk, the child's new edge is W's
\* edge as read when the removal began: basedOn P and baseBranch B, the
\* stored branch name, not P's live branch.
ChildInheritsRecordedEdge ==
    [][(/\ CascadeSuccess
        /\ OwnIndex(rm.before, rm.workspaceName) # {}
        /\ getStackMetadata(rm.before, rm.workspaceName).basedOn \in onDisk)
          => /\ getStackMetadata(cfg', rm.children[rm.idx])
                  = getStackMetadata(rm.before, rm.workspaceName)
             /\ getStackMetadata(cfg', rm.children[rm.idx]).kind = "own"]_vars

\* a child was re-pointed to a grandparent whose live branch is not the
\* branch stored in the removed workspace's edge
ChildInheritsRecordedEdgeWitness ==
    /\ rm.pc = "finish" /\ rm.policy = "Rebase"
    /\ rm.parent.kind = "parent" /\ rm.parent.workspaceName \in onDisk
    /\ rm.parent.branch # BranchOf(rm.parent.workspaceName)
    /\ \E i \in 1..Len(rm.outcomes) :
         /\ rm.outcomes[i] = "rebased"
         /\ getStackMetadata(cfg, rm.children[i])
              = Metadata(rm.parent.workspaceName, rm.parent.branch)

\* the entry a successful cascade step leaves for child i: the removed
\* workspace's own edge when it has one whose parent is on disk, else none
AfterSuccess(i) ==
    IF OwnIndex(rm.before, rm.workspaceName) # {}
       /\ getStackMetadata(rm.before, rm.workspaceName).basedOn \in onDisk
    THEN getStackMetadata(cfg, rm.children[i])
           = getStackMetadata(rm.before, rm.workspaceName)
    ELSE OwnIndex(cfg, rm.children[i]) = {}

\* the parts of C21 that do not depend on what a success writes: children
\* are attempted in order, the untouched and the failed ones keep their
\* edge to the workspace being removed, which is still on disk with its own
\* entry as it was
CascadeIsSequential ==
    /\ rm.children = getStackChildren(rm.before, rm.workspaceName)
    /\ Len(rm.outcomes) = rm.idx - 1 /\ Len(rm.outcomes) <= Len(rm.children)
    /\ rm.pc = "cascade" => Len(rm.outcomes) < Len(rm.children)
    /\ rm.workspaceName \in onDisk
    /\ getStackMetadata(cfg, rm.workspaceName) = getStackMetadata(rm.before, rm.workspaceName)
    /\ \A i \in 1..Len(rm.children) :
         (i > Len(rm.outcomes) \/ rm.outcomes[i] # "rebased")
             => getStackMetadata(cfg, rm.children[i])
                  = getStackMetadata(rm.before, rm.children[i])

\* the removal of the workspace happens only once every child was attempted
RemovalAfterCascade ==
    (InCascade /\ rm.workspaceName \notin onDisk')
        => (rm.pc = "finish" /\ Len(rm.outcomes) = Len(rm.children))

\* C21 as stated: the cascade is sequential and precedes the removal; at
\* every intermediate state the children not yet attempted have their
\* original edge, the attempted ones have the new edge (success) or the
\* original edge (failure), and the worktree and own entry of the removed
\* workspace are deleted only after every child was attempted.
CascadeLeavesNewOrOldEdge ==
    [][/\ InCascade' =>
            /\ CascadeIsSequential'
            /\ \A i \in 1..Len(rm'.outcomes) :
                 rm'.outcomes[i] = "rebased"
                     => /\ OwnIndex(cfg', rm'.children[i]) # {}
                        /\ EdgeParents(cfg', rm'.children[i]) # {rm'.workspaceName}
       /\ RemovalAfterCascade]_vars

\* C21 amended: as stated, except that an attempted child whose rebase
\* succeeded has the removed workspace's own edge when that workspace has
\* one whose parent is on disk, and no entry at all otherwise.
CascadeLeavesNewOldOrNoEdge ==
    [][/\ InCascade' =>
            /\ CascadeIsSequential'
            /\ \A i \in 1..Len(rm'.outcomes) :
                 rm'.outcomes[i] = "rebased" => AfterSuccess(i)'
       /\ RemovalAfterCascade]_vars

\* mid-cascade of a workspace without an edge: the first child was rebased
\* and has no entry, the second failed, the third is not yet attempted
CascadeLeavesNewOldOrNoEdgeWitness ==
    /\ rm.pc = "cascade" /\ rm.policy = "Rebase"
    /\ Len(rm.children) = 3 /\ Len(rm.outcomes) = 2
    /\ rm.outcomes[1] = "rebased" /\ rm.outcomes[2] # "rebased"
    /\ rm.parent.kind = "null" /\ rm.workspaceName \in onDisk
    /\ OwnIndex(cfg, rm.children[1]) = {}
    /\ EdgeParents(cfg, rm.children[2]) = {rm.workspaceName}
    /\ EdgeParents(cfg, rm.children[3]) = {rm.workspaceName}

\* the entries that exist before and after the step with another value
Repointed ==
    IF cfg' = cfg THEN {}
    ELSE {w \in Names : /\ OwnIndex(cfg, w) # {} /\ OwnIndex(cfg', w) # {}
                        /\ getStackMetadata(cfg', w) # getStackMetadata(cfg, w)}

\* C22: rebase-stack never changes the edge mapping, whatever its outcome;
\* the basedOn/baseBranch of an entry changes only in a cascade step whose
\* rebase succeeded, and only for the child of that step.
RebaseStackKeepsMapping ==
    [][/\ (rb'.outcome # "idle" /\ ~RmRunning') => cfg' = cfg
       /\ \A w \in Repointed : CascadeSuccess /\ w = rm.children[rm.idx]]_vars

\* rebase-stack succeeded in a workspace whose entry stores a branch that
\* is not the one checked out in its parent
RebaseStackKeepsMappingWitness ==
    /\ rb.outcome = "rebased"
    /\ \E k \in 1..Len(cfg.entries) :
         /\ cfg.entries[k].basedOn \in onDisk
         /\ cfg.entries[k].baseBranch # BranchOf(cfg.entries[k].basedOn)

StoredBranches == {<<w, v>> : w \in Names, v \in {0, 1}}

\* C4: setEdge(c, p, b) then getParent(c) gives (p, b); removeEdge(c) then
\* getParent(c) gives none, for every child, parent, branch and prior mapping.
EdgeRoundTrip ==
    \A c \in Names :
        /\ \A q \in Names, b \in StoredBranches :
              getStackParent(setStackMetadata(cfg, c, Metadata(q, b)), c)
                  = [kind |-> "parent", workspaceName |-> q, branch |-> b]
        /\ getStackParent(removeStackMetadata(cfg, c), c) = NoParent

\* C27: whenever removeWorkspace ends without removing the workspace (the
\* confirmation was declined, the command was refused inside the workspace's
\* own session, or the worktree removal failed), the edge mapping is the
\* same as before the command.
RemovalThatStaysKeepsMapping ==
    [][(rm' # rm /\ rm'.pc \in {"cancelled", "refused", "failed"})
          => /\ rm'.workspaceName \in onDisk'
             /\ cfg' = (IF RmRunning THEN rm.before ELSE cfg)]_vars

\* C28: immediately after addWorkspace created a workspace, getChildren of
\* the new name is empty, also when a workspace of that name was removed
\* earlier and some of its children failed their cascade rebase.
NewWorkspaceHasNoChildren ==
    [][\A w \in Names :
          (w \notin onDisk /\ w \in onDisk') => getStackChildren(cfg', w) = <<>>]_vars

(***************************************************************************)
(* Properties of getStackTree (checked under SpecTree)                     *)
(***************************************************************************)
\* the nodes of the subtree under node n, n included
RECURSIVE NodesOf(_)
NodesOf(n) == {n} \cup UNION {NodesOf(n.children[k]) : k \in 1..Len(n.children)}

TreeNodes == UNION {NodesOf(tree.roots[k]) : k \in 1..Len(tree.roots)}

NamesIn(nodes) == [k \in 1..Len(nodes) |-> nodes[k].workspaceName]

Readable == onDisk \ tree.unreadable

\* C15: buildTree returns no node when no workspace is on disk and one node
\* with no children at depth 0 for a single workspace with no edges; its
\* roots are exactly the readable on-disk workspaces without an entry, a
\* node's children are exactly its getChildren that are on disk and
\* readable, and a child's depth is its parent's depth plus 1.
TreeRootsAndChildren ==
    tree.pc = "done"
        => /\ onDisk = {} => tree.roots = <<>>
           /\ \A w \in Names :
                (onDisk = {w} /\ cfg.entries = <<>> /\ tree.unreadable = {})
                    => tree.roots = <<[workspaceName |-> w, branch |-> <<w, 0>>,
                                       children |-> <<>>, depth |-> 0]>>
           /\ NamesIn(tree.roots)
                = SelectSeq(Listing(onDisk),
                            LAMBDA w : w \in Readable /\ OwnIndex(cfg, w) = {})
           /\ \A k \in 1..Len(tree.roots) : tree.roots[k].depth = 0
           /\ \A n \in TreeNodes :
                /\ NamesIn(n.children)
                     = SelectSeq(getStackChildren(cfg, n.workspaceName),
                                 LAMBDA w : w \in Readable)
                /\ \A k \in 1..Len(n.children) : n.children[k].depth = n.depth + 1

\* the chain of parents of w ends, within k steps, at an on-disk workspace
\* without an entry, every workspace on the way being on disk
RECURSIVE ChainEndsAtRoot(_, _)
ChainEndsAtRoot(w, k) ==
    IF w \notin onDisk THEN FALSE
    ELSE IF OwnIndex(cfg, w) = {} THEN TRUE
    ELSE IF k = 0 THEN FALSE
    ELSE \E q \in EdgeParents(cfg, w) : ChainEndsAtRoot(q, k - 1)

\* C16: for every edge mapping, cyclic ones and ones with edges to
\* workspaces that are not on disk included, buildTree returns a tree (of
\* depth below the number of workspaces), and a workspace whose chain of
\* parents does not end at an on-disk root is in no node of it.
TreeDropsUnrooted ==
    /\ tree.pc = "idle" => ENABLED StackTree
    /\ tree.pc = "done"
         => /\ \A n \in TreeNodes :
                 n.depth \in 0..(Cardinality(onDisk) - 1) /\ n.workspaceName \in Readable
            /\ \A w \in Names :
                 ~ChainEndsAtRoot(w, Cardinality(Names))
                     => \A n \in TreeNodes : n.workspaceName # w

\* a tree was built from a mapping with a cycle among readable workspaces and
\* a readable workspace whose parent is not on disk; the tree has a root
\* with a child
TreeDropsUnrootedWitness ==
    /\ tree.pc = "done"
    /\ \E w \in Readable : w \in Ancestors(cfg, w)
    /\ \E w \in Readable : \E q \in EdgeParents(cfg, w) : q \notin onDisk
    /\ \E k \in 1..Len(tree.roots) : tree.roots[k].children # <<>>

\* the workspace names of a forest, one per node, parents before children
RECURSIVE NamesUnder(_)
NamesUnder(nodes) ==
    IF nodes = <<>> THEN <<>>
    ELSE <<Head(nodes).workspaceName>> \o NamesUnder(Head(nodes).children)
             \o NamesUnder(Tail(nodes))

OccursTwice(roots) ==
    LET q == NamesUnder(roots)
    IN  \E i, j \in 1..Len(q) : i # j /\ q[i] = q[j]

\* C25 as stated: there are an edge mapping and an on-disk workspace set for
\* which buildTree returns a forest with the same workspace name in two
\* different nodes.
SomeTreeRepeatsAName ==
    \E c \in TreeConfigs, disk \in SUBSET Names :
        \E unreadable \in SUBSET disk :
            OccursTwice(getStackTree(c, Listing(disk), disk \ unreadable))

\* C25 amended: in every forest buildTree returns, each workspace name
\* occurs in at most one node; the mapping has one parent per child and the
\* roots have no entry, so no workspace is reached from two ancestors.
TreeNamesAreDistinct ==
    tree.pc = "done" => ~OccursTwice(tree.roots)

\* a tree of four nodes was built in which a root has two children, so the
\* recursion went down two branches with their own copies of visited
TreeNamesAreDistinctWitness ==
    /\ tree.pc = "done"
    /\ Len(NamesUnder(tree.roots)) = 4
    /\ \E k \in 1..Len(tree.roots) : Len(tree.roots[k].children) >= 2

(***************************************************************************)
(* Properties of the edge store used directly (SpecEdges, SpecConc)        *)
(***************************************************************************)
\* candidateParent and everything above it
UpFrom(c, w) == {w} \cup Ancestors(c, w)

\* C23: detectCircularDependency returns on every mapping, cyclic ones
\* included: true when the upward walk from candidateParent reaches
\* proposedChild or a workspace on a cycle (a revisit), false when it
\* reaches a workspace without a parent first.
DetectTerminates ==
    /\ \A parentWorkspace \in Names, newWorkspace \in Names :
          detectCircularDependency(cfg, parentWorkspace, newWorkspace) \in BOOLEAN
    /\ ed.detect.pc = "done"
         => (ed.detect.result
               <=> \/ ed.detect.newWorkspace \in UpFrom(cfg, ed.detect.parentWorkspace)
                   \/ \E x \in UpFrom(cfg, ed.detect.parentWorkspace) :
                         x \in Ancestors(cfg, x))

\* the walk ran into a cycle of two workspaces that proposedChild is not
\* part of, starting from outside the cycle
DetectTerminatesWitness ==
    /\ ed.detect.pc = "done" /\ ed.detect.result
    /\ ed.detect.newWorkspace \notin UpFrom(cfg, ed.detect.parentWorkspace)
    /\ ed.detect.parentWorkspace \notin Ancestors(cfg, ed.detect.parentWorkspace)
    /\ Cardinality(UpFrom(cfg, ed.detect.parentWorkspace)) = 3

\* the entry of w in mapping c, or none
EdgeOf(c, w) ==
    IF OwnIndex(c, w) = {} THEN <<>>
    ELSE LET k == CHOOSE k \in OwnIndex(c, w) : TRUE
         IN  <<c.entries[k].basedOn, c.entries[k].baseBranch>>

\* the mapping holds what process p asked for
Reflected(p) ==
    IF ed.proc[p].op = "setEdge"
    THEN EdgeOf(cfg, ed.proc[p].child)
           = <<ed.proc[p].metadata.basedOn, ed.proc[p].metadata.baseBranch>>
    ELSE EdgeOf(cfg, ed.proc[p].child) = <<>>

\* C24: setEdge inserts or overwrites only the entry of its child and
\* removeEdge deletes only the entry of its child; every other entry is
\* unchanged, and removeEdge of a child without an entry leaves the mapping
\* as it was and raises no error.
EdgeOpsTouchOneEntry ==
    \A p \in DOMAIN ed.proc :
        /\ ed.proc[p].pc = "read" => ENABLED EdgeWrite
        /\ ed.proc[p].pc = "done"
             => /\ Reflected(p)
                /\ \A w \in Names \ {ed.proc[p].child} :
                      EdgeOf(cfg, w) = EdgeOf(ed.proc[p].config, w)
                /\ \A k \in 1..Len(cfg.entries) :
                      Cardinality(OwnIndex(cfg, cfg.entries[k].child)) = 1
                /\ (ed.proc[p].op = "removeEdge"
                    /\ EdgeOf(ed.proc[p].config, ed.proc[p].child) = <<>>)
                      => cfg = ed.proc[p].config

\* removeEdge ran on a child without an entry in a mapping with three
\* entries, one of them based on that child
EdgeOpsTouchOneEntryWitness ==
    /\ ed.proc[1].pc = "done" /\ ed.proc[1].op = "removeEdge"
    /\ EdgeOf(ed.proc[1].config, ed.proc[1].child) = <<>>
    /\ Len(cfg.entries) = 3
    /\ \E k \in 1..3 : cfg.entries[k].basedOn = ed.proc[1].child

\* C29: when two processes each did a setEdge or removeEdge on different
\* children and their read and write steps interleaved, the mapping
\* reflects both operations after both have completed.
NoLostUpdate ==
    (/\ DOMAIN ed.proc = {1, 2}
     /\ ed.proc[1].pc = "done" /\ ed.proc[2].pc = "done"
     /\ ed.proc[1].child # ed.proc[2].child)
        => (Reflected(1) /\ Reflected(2))

(***************************************************************************)
(* Properties of the matcher (checked under SpecMatch)                     *)
(***************************************************************************)
\* q is a subsequence of c
RECURSIVE IsSubsequence(_, _)
IsSubsequence(q, c) ==
    IF q = <<>> THEN TRUE
    ELSE IF c = <<>> THEN FALSE
    ELSE \/ (Head(q) = Head(c) /\ IsSubsequence(Tail(q), Tail(c)))
         \/ IsSubsequence(q, Tail(c))

\* C10: when the query, compared case-insensitively, is not a subsequence
\* of the candidate, match returns score 0 and no matched indices.
NonSubsequenceScoresZero ==
    (mres # NoResult /\ ~IsSubsequence(LowerStr(mq), LowerStr(mc)))
        => (mres.score = 0 /\ mres.matchedIndices = <<>>)

\* a two-character query whose first character occurs in the candidate but
\* whose second does not occur behind it
NonSubsequenceScoresZeroWitness ==
    /\ mres # NoResult
    /\ Len(mq) = 2 /\ Len(mc) >= 2
    /\ ~IsSubsequence(LowerStr(mq), LowerStr(mc))
    /\ IsSubsequence(<<toLowerCase(mq[1])>>, LowerStr(mc))
    /\ IsSubsequence(<<toLowerCase(mq[2])>>, LowerStr(mc))

\* C11 as stated: match("abc", "abc") returns the indices [0,1,2] and the
\* score 94.
AbcScores94 ==
    (mq = Abc /\ mc = Abc /\ mres # NoResult)
        => mres = [score |-> 94, matchedIndices |-> <<0, 1, 2>>]

\* C11 amended: match("abc", "abc") returns the indices [0,1,2] and the score
\* 50 + 15 + 10 + 10 + 5 + 2 + 2 + 2 = 96.
AbcScores96 ==
    (mq = Abc /\ mc = Abc /\ mres # NoResult)
        => mres = [score |-> 96, matchedIndices |-> <<0, 1, 2>>]

\* "abc" has been matched against "abc"
AbcScores96Witness ==
    /\ mq = Abc /\ mc = Abc /\ mres # NoResult
    /\ Len(mres.matchedIndices) = 3

\* the first 0-based position at or behind `from` where the lowercased
\* candidate has the lowercased character ch
FirstAt(c, ch, from) ==
    CHOOSE k \in from..(Len(c) - 1) :
        /\ toLowerCase(c[k + 1]) = toLowerCase(ch)
        /\ \A j \in from..(k - 1) : toLowerCase(c[j + 1]) # toLowerCase(ch)

\* idx is the greedy leftmost embedding of q into c
GreedyLeftmost(q, c, idx) ==
    /\ Len(idx) = Len(q)
    /\ \A i \in 1..Len(q) :
         idx[i] = FirstAt(c, q[i], IF i = 1 THEN 0 ELSE idx[i - 1] + 1)
    /\ \A i \in 2..Len(q) : idx[i - 1] < idx[i]

\* the terms of the score that query position i contributes
RECURSIVE TermsFrom(_, _, _, _)
TermsFrom(q, c, idx, i) ==
    IF i > Len(idx) THEN 0
    ELSE (IF i > 1 /\ idx[i] = idx[i - 1] + 1 THEN 10 ELSE 0)
         + (IF idx[i] = 0 THEN 5
            ELSE IF c[idx[i]] \in {"-", "_", "/"} THEN 5 ELSE 0)
         + (IF q[i] = c[idx[i] + 1] THEN 2 ELSE 0)
         - (IF i > 1 THEN idx[i] - idx[i - 1] - 1 ELSE 0)
         + TermsFrom(q, c, idx, i + 1)

====
